---- MODULE Spec2Model ----
(***************************************************************************)
(* A model of the MFS volume reader (src/mfs.go): NewVolume decodes the    *)
(* volume information, the packed allocation block map and the file        *)
(* directory from a seekable byte source; OpenDataFork / OpenResourceFork  *)
(* rebuild a fork by walking the allocation block chain.                   *)
(*                                                                         *)
(* The byte source is described by a structured image; the reader only     *)
(* ever sees it through ByteAt (the byte at an absolute offset) and        *)
(* SourceSize, as the Go code sees an io.ReadSeeker.                       *)
(***************************************************************************)
EXTENDS Integers, Sequences, FiniteSets, TLC

\* ------------------------------------------------------------------------
\* Program constants
\* ------------------------------------------------------------------------

logicalBlockSize == 512

maxFileNameLength == 31

maxVolumeNameLength == 27

\* r.Seek(1024, io.SeekStart): where the volume information starts
volumeInformationOffset == 1024

\* 0xd2d7
volumeSignature == 53975

\* seconds between 1904-01-01 and 1970-01-01
macEpochOffset == 2082844800

\* the "not enough room left in the current logical block" threshold
directoryRoomThreshold == 52

\* binary.Size(volumeInformation): 2+4+4+2+2+2+2+2+4+4+2+4+2+28
volumeInformationSize == 64

\* binary.Size(fileDirectoryEntry): 1+1+16+4+2+4+4+2+4+4+4+4+32
fileDirectoryEntrySize == 82

\* offset of Nam in fileDirectoryEntry: the fixed part that precedes the name
fileDirectoryEntryNamOffset == 50

\* ------------------------------------------------------------------------
\* Bounds of the model
\* ------------------------------------------------------------------------

\* NumberOfAllocationBlocks of the fork images (allocation blocks 2 .. 5)
NumBlocks == 4

\* SizeOfAllocationBlocks of the fork images, in bytes
BlockBytes == 2

\* files in a directory-framing image
MaxDirFiles == 7

\* entries in an allocation-map image
MaxMapEntries == 3

\* the chain walk is followed for at most this many lookups beyond the map's length
ExtraHops == 2

\* ------------------------------------------------------------------------
\* The byte source: a structured image and the bytes it holds
\* ------------------------------------------------------------------------

\* j-th byte (0-based) of the n-byte big-endian encoding of v
BigEndianByte(v, n, j) == IF j = n - 1 THEN v % 256 ELSE IF j = n - 2 THEN (v \div 256) % 256 ELSE IF j = n - 3 THEN (v \div 65536) % 256 ELSE (v \div 16777216) % 256

\* a length-prefixed name field: the length byte, then the characters
NameChar(k, j) == 65 + ((k + j) % 26)

\* on-disk size of a directory record with an L-byte name: the fixed part,
\* the length byte, the name, rounded up to an even size
RecordLength(L) == LET n == fileDirectoryEntryNamOffset + 1 + L IN n + (n % 2)

\* j-th byte of the on-disk record rec, the k-th of its directory
RecordByte(rec, k, j) ==
  CASE j = 0 -> rec.Flags
    [] j = 1 -> 0
    [] j \in 2..5 -> <<84, 69, 88, 84>>[j - 1]
    [] j \in 6..9 -> <<116, 116, 120, 116>>[j - 5]
    [] j \in 10..17 -> 0
    [] j \in 18..21 -> BigEndianByte(k, 4, j - 18)
    [] j \in 22..23 -> BigEndianByte(rec.StBlk, 2, j - 22)
    [] j \in 24..27 -> BigEndianByte(rec.LgLen, 4, j - 24)
    [] j \in 28..31 -> BigEndianByte(rec.LgLen, 4, j - 28)
    [] j \in 32..33 -> BigEndianByte(rec.RStBlk, 2, j - 32)
    [] j \in 34..37 -> BigEndianByte(rec.RLgLen, 4, j - 34)
    [] j \in 38..41 -> BigEndianByte(rec.RLgLen, 4, j - 38)
    [] j \in 42..45 -> BigEndianByte(rec.CrDat, 4, j - 42)
    [] j \in 46..49 -> BigEndianByte(rec.MdDat, 4, j - 46)
    [] j = 50 -> rec.NamLen
    [] j \in 51..(50 + rec.NamLen) -> NameChar(k, j - 51)
    [] OTHER -> 0

\* j-th byte of the on-disk volume information of image s
HeaderByte(s, j) ==
  CASE j \in 0..1 -> s.sig[j + 1]
    [] j \in 12..13 -> BigEndianByte(s.NumberOfFiles, 2, j - 12)
    [] j \in 14..15 -> BigEndianByte(s.DirSt, 2, j - 14)
    [] j \in 16..17 -> BigEndianByte(s.BlLen, 2, j - 16)
    [] j \in 18..19 -> BigEndianByte(s.NumberOfAllocationBlocks, 2, j - 18)
    [] j \in 20..23 -> BigEndianByte(s.SizeOfAllocationBlocks, 4, j - 20)
    [] j = 36 -> s.volNameLen
    [] j \in 37..63 -> IF j - 37 < s.volNameLen THEN NameChar(21, j - 37) ELSE 0
    [] OTHER -> 0

\* the byte the image holds at absolute offset o (o < s.size): the volume
\* information, the packed map, the directory records, and a pattern of bytes
\* in what is left of the directory blocks and in the allocation blocks
ByteAt(s, o) ==
  LET h == volumeInformationOffset
      m == h + volumeInformationSize
      inDir == {k \in 1..Len(s.dir) : o >= s.dirStart[k] /\ o < s.dirStart[k] + RecordLength(s.dir[k].NamLen)}
  IN  IF o >= h /\ o < m THEN HeaderByte(s, o - h)
      ELSE IF o >= m /\ o < m + Len(s.map) THEN s.map[o - m + 1]
      ELSE IF inDir # {} THEN LET k == CHOOSE k \in inDir : TRUE IN RecordByte(s.dir[k], k, o - s.dirStart[k])
      ELSE IF o >= s.DirSt * logicalBlockSize THEN (o * 7 + s.seed) % 128
      ELSE 0

SourceSize(s) == s.size

\* ------------------------------------------------------------------------
\* Reading the source (io.ReadSeeker, encoding/binary with binary.BigEndian)
\* ------------------------------------------------------------------------

ReadU16(s, o) == ByteAt(s, o) * 256 + ByteAt(s, o + 1)

ReadU32(s, o) == ReadU16(s, o) * 65536 + ReadU16(s, o + 2)

\* the bytes o .. o+n-1 of the source
ReadBytes(s, o, n) == [j \in 1..n |-> ByteAt(s, o + j - 1)]

\* whether io.ReadFull of n bytes at cursor p succeeds (binary.Read fails on a short read)
CanReadFull(s, p, n) == p + n <= SourceSize(s)

\* the cursor a failed io.ReadFull at p leaves behind
CursorAfterShortRead(s, p) == IF p >= SourceSize(s) THEN p ELSE SourceSize(s)

\* pascalString on a length-prefixed field of fieldLen bytes that starts at offset o:
\* data[1 : length+1] panics when length+1 exceeds the field
pascalString(s, o, fieldLen) ==
  LET length == ByteAt(s, o)
  IN  IF length = 0 THEN [panic |-> FALSE, str |-> <<>>]
      ELSE IF length + 1 > fieldLen THEN [panic |-> TRUE, str |-> <<>>]
      ELSE [panic |-> FALSE, str |-> ReadBytes(s, o + 1, length)]

\* binary.Read(r, binary.BigEndian, &vi) at offset o
readVolumeInformation(s, o) ==
  [Signature |-> ReadU16(s, o),
   CreateDate |-> ReadU32(s, o + 2),
   LastBackup |-> ReadU32(s, o + 6),
   Attributes |-> ReadU16(s, o + 10),
   NumberOfFiles |-> ReadU16(s, o + 12),
   DirSt |-> ReadU16(s, o + 14),
   BlLen |-> ReadU16(s, o + 16),
   NumberOfAllocationBlocks |-> ReadU16(s, o + 18),
   SizeOfAllocationBlocks |-> ReadU32(s, o + 20),
   ClpSize |-> ReadU32(s, o + 24),
   FirstAllocationBlockInBlockMap |-> ReadU16(s, o + 28),
   NextUnusedFileNumber |-> ReadU32(s, o + 30),
   FreeBlocks |-> ReadU16(s, o + 34)]

ZeroVolumeInformation == [Signature |-> 0, CreateDate |-> 0, LastBackup |-> 0, Attributes |-> 0, NumberOfFiles |-> 0, DirSt |-> 0, BlLen |-> 0, NumberOfAllocationBlocks |-> 0, SizeOfAllocationBlocks |-> 0, ClpSize |-> 0, FirstAllocationBlockInBlockMap |-> 0, NextUnusedFileNumber |-> 0, FreeBlocks |-> 0]

\* the nil *Volume
NilVolume == [nil |-> TRUE, allocationBlocks |-> <<>>, Name |-> <<>>, Files |-> <<>>, vi |-> ZeroVolumeInformation]

\* vi.Signature != 0xd2d7 is the only check NewVolume makes of the header
SignatureAcceptedHighByteOnly(vi) == vi.Signature \div 256 = volumeSignature \div 256

SignatureAccepted(vi) == vi.Signature = volumeSignature

\* ------------------------------------------------------------------------
\* The volume allocation block map: 12-bit entries, two in three bytes
\* ------------------------------------------------------------------------

\* (uint16(a) << 4) | (uint16(b) >> 4): the operands share no bit, so | is +
evenEntry(a, b) == a * 16 + b \div 16

oddEntryShiftedByFour(t, a) == ((t % 16) * 16 + a) % 65536

\* (uint16(t&0x0f) << 8) | uint16(a)
oddEntry(t, a) == (t % 16) * 256 + a

\* the loop over i < NumberOfAllocationBlocks, from entry i with the cursor at p,
\* the carry byte t and the entries acc decoded so far; readByte fails at the end
\* of the source
RECURSIVE readAllocationBlocks(_, _, _, _, _, _)
readAllocationBlocks(s, count, i, p, t, acc) ==
  IF i >= count THEN [err |-> FALSE, pos |-> p, allocationBlocks |-> acc]
  ELSE IF i % 2 = 0
  THEN IF p >= SourceSize(s) THEN [err |-> TRUE, pos |-> p, allocationBlocks |-> <<>>]
       ELSE IF p + 1 >= SourceSize(s) THEN [err |-> TRUE, pos |-> p + 1, allocationBlocks |-> <<>>]
       ELSE readAllocationBlocks(s, count, i + 1, p + 2, ByteAt(s, p + 1), Append(acc, evenEntry(ByteAt(s, p), ByteAt(s, p + 1))))
  ELSE IF p >= SourceSize(s) THEN [err |-> TRUE, pos |-> p, allocationBlocks |-> <<>>]
       ELSE readAllocationBlocks(s, count, i + 1, p + 1, t, Append(acc, oddEntry(t, ByteAt(s, p))))

\* ------------------------------------------------------------------------
\* The file directory
\* ------------------------------------------------------------------------

\* binary.Read(r, binary.BigEndian, &fde) at offset o (UsrWds beyond type and
\* creator, Flags and Version are read and kept verbatim; the model keeps the
\* fields the reader uses)
readFileDirectoryEntry(s, o) ==
  [Flags |-> ByteAt(s, o),
   Version |-> ByteAt(s, o + 1),
   FlNum |-> ReadU32(s, o + 18),
   StBlk |-> ReadU16(s, o + 22),
   LgLen |-> ReadU32(s, o + 24),
   PyLen |-> ReadU32(s, o + 28),
   RStBlk |-> ReadU16(s, o + 32),
   RLgLen |-> ReadU32(s, o + 34),
   RPyLen |-> ReadU32(s, o + 38),
   CrDat |-> ReadU32(s, o + 42),
   MdDat |-> ReadU32(s, o + 46),
   Nam0 |-> ByteAt(s, o + fileDirectoryEntryNamOffset)]

\* the File built from the entry read at offset o
makeFile(s, o, fde, name) ==
  [Name |-> name,
   Type |-> ReadBytes(s, o + 2, 4),
   Creator |-> ReadBytes(s, o + 6, 4),
   Created |-> fde.CrDat - macEpochOffset,
   Modified |-> fde.MdDat - macEpochOffset,
   DataForkLength |-> fde.LgLen,
   ResourceForkLength |-> fde.RLgLen,
   directoryEntry |-> fde]

\* whether, with the cursor at current after an entry was read, the reader jumps
\* to the next logical block
jumpsToNextBlock(current) == (current + directoryRoomThreshold) % logicalBlockSize < directoryRoomThreshold

\* the target of that jump
nextBlockStart(current) == current + (logicalBlockSize - (current % logicalBlockSize))

\* offset := int64(maxFileNameLength + 1 - 1 - fde.Nam[0]) is computed in byte
\* arithmetic; one less when the name length is even
nameRewind(nam0) ==
  LET offset == (maxFileNameLength + 1 - 1 - nam0) % 256
  IN  IF nam0 % 2 = 0 THEN offset - 1 ELSE offset

\* the loop over i < NumberOfFiles, from entry i with the cursor at p; files are
\* the Files so far and at the cursors their entries were read from.
\* readDirectoryEntry is the body of the loop once the entry fde (and its name)
\* was read at p.
RECURSIVE readDirectory(_, _, _, _, _, _)
readDirectoryEntry(s, n, i, p, files, at, fde, name) ==
  IF name.panic
  THEN [status |-> "panic", pos |-> p + fileDirectoryEntrySize, files |-> <<>>, readAt |-> at]
  ELSE IF jumpsToNextBlock(p + fileDirectoryEntrySize)
  THEN readDirectory(s, n, i + 1, nextBlockStart(p + fileDirectoryEntrySize), files, at)
  ELSE IF p + fileDirectoryEntrySize - nameRewind(fde.Nam0) < 0
  THEN [status |-> "error", pos |-> p + fileDirectoryEntrySize, files |-> <<>>, readAt |-> at]
  ELSE readDirectory(s, n, i + 1, p + fileDirectoryEntrySize - nameRewind(fde.Nam0), files, at)

readDirectoryFile(s, n, i, p, files, at, fde, name) == readDirectoryEntry(s, n, i, p, IF name.panic THEN files ELSE Append(files, makeFile(s, p, fde, name.str)), Append(at, p), fde, name)

readDirectory(s, n, i, p, files, at) ==
  IF i >= n THEN [status |-> "ok", pos |-> p, files |-> files, readAt |-> at]
  ELSE IF ~CanReadFull(s, p, fileDirectoryEntrySize)
  THEN [status |-> "error", pos |-> CursorAfterShortRead(s, p), files |-> <<>>, readAt |-> at]
  ELSE readDirectoryFile(s, n, i, p, files, at, readFileDirectoryEntry(s, p), pascalString(s, p + fileDirectoryEntryNamOffset, maxFileNameLength + 1))

\* ------------------------------------------------------------------------
\* NewVolume
\* ------------------------------------------------------------------------

\* what NewVolume(r) returns on source s: status is "ok" (a Volume, nil error),
\* "error" (nil, an error) or "panic"; pos is where it leaves the cursor and
\* readAt the cursors the directory entries were read from
NewVolumeFails(status, p, at) == [status |-> status, vol |-> NilVolume, pos |-> p, readAt |-> at]

\* the return statement, after the directory loop d
NewVolumeAfterDirectory(vi, m, d, name) ==
  IF d.status # "ok" THEN NewVolumeFails(d.status, d.pos, d.readAt)
  ELSE IF name.panic THEN NewVolumeFails("panic", d.pos, d.readAt)
  ELSE [status |-> "ok",
        vol |-> [nil |-> FALSE, allocationBlocks |-> m.allocationBlocks, Name |-> name.str, Files |-> d.files, vi |-> vi],
        pos |-> d.pos,
        readAt |-> d.readAt]

\* after the allocation block map loop m: seek to the directory and read it
NewVolumeAfterMap(s, vi, m) ==
  IF m.err THEN NewVolumeFails("error", m.pos, <<>>)
  ELSE NewVolumeAfterDirectory(vi, m, readDirectory(s, vi.NumberOfFiles, 0, vi.DirSt * logicalBlockSize, <<>>, <<>>), pascalString(s, volumeInformationOffset + 36, maxVolumeNameLength + 1))

\* after the volume information vi was read: the signature check, then the map
NewVolumeAfterHeader(s, vi) ==
  IF ~SignatureAccepted(vi) THEN NewVolumeFails("error", volumeInformationOffset + volumeInformationSize, <<>>)
  ELSE NewVolumeAfterMap(s, vi, readAllocationBlocks(s, vi.NumberOfAllocationBlocks, 0, volumeInformationOffset + volumeInformationSize, 0, <<>>))

NewVolumeResult(s) ==
  IF ~CanReadFull(s, volumeInformationOffset, volumeInformationSize)
  THEN NewVolumeFails("error", CursorAfterShortRead(s, volumeInformationOffset), <<>>)
  ELSE NewVolumeAfterHeader(s, readVolumeInformation(s, volumeInformationOffset))

\* ------------------------------------------------------------------------
\* State
\* ------------------------------------------------------------------------

VARIABLES
  source,     \* the byte source r (its contents never change)
  pos,        \* the read cursor of the byte source
  pc,         \* "start": before NewVolume; "failed": NewVolume returned no Volume;
              \* "idle": a Volume exists and no call is running; "walk": inside the
              \* for loop of bytesReader
  newStatus,  \* what NewVolume returned: "none" | "ok" | "error" | "panic"
  vol,        \* the Volume (NilVolume when there is none)
  vol0,       \* the Volume as NewVolume returned it
  readAt,     \* the cursors NewVolume read the directory entries from
  call,       \* the running (or last) Open...Fork call
  result,     \* what the last Open...Fork call returned
  first       \* per fork, what the first completed open of it returned

vars == <<source, pos, pc, newStatus, vol, vol0, readAt, call, result, first>>

ForkKinds == {"data", "resource"}

NoResult == [status |-> "none", data |-> <<>>]

NoCall == [kind |-> "none", file |-> 0, length |-> 0, idx |-> 0, data |-> <<>>, cap |-> 0, hops |-> 0, io |-> 0, posBefore |-> 0, lookedUp |-> <<>>]

\* ------------------------------------------------------------------------
\* The fork reader
\* ------------------------------------------------------------------------

blockOffsetFromCursor(v, p, allocationBlockIndex) == p

blockOffsetWithoutBlLen(v, p, allocationBlockIndex) == v.vi.DirSt * logicalBlockSize + allocationBlockIndex * v.vi.SizeOfAllocationBlocks

\* the offset readAllocationBlock seeks to, from io.SeekStart whatever the cursor
\* p is; DirSt+BlLen is a uint16 sum
blockOffset(v, p, allocationBlockIndex) == ((v.vi.DirSt + v.vi.BlLen) % 65536) * logicalBlockSize + allocationBlockIndex * v.vi.SizeOfAllocationBlocks

\* readAllocationBlock: Seek, then one Read into a zeroed buffer of
\* SizeOfAllocationBlocks bytes. Read fails (io.EOF) only at the end of the
\* source; a short read leaves the rest of the buffer zero and is no error.
readBuffer(s, offset, size) ==
  IF offset >= SourceSize(s) THEN [err |-> TRUE, buffer |-> <<>>, pos |-> offset]
  ELSE IF SourceSize(s) - offset < size
  THEN [err |-> FALSE, buffer |-> [j \in 1..size |-> IF j <= SourceSize(s) - offset THEN ByteAt(s, offset + j - 1) ELSE 0], pos |-> SourceSize(s)]
  ELSE [err |-> FALSE, buffer |-> ReadBytes(s, offset, size), pos |-> offset + size]

readAllocationBlock(v, s, p, allocationBlockIndex) == readBuffer(s, blockOffset(v, p, allocationBlockIndex), v.vi.SizeOfAllocationBlocks)

\* volume.allocationBlocks[allocationBlockIndex-2], the index a uint16: the
\* lookup panics (index out of range) outside the slice
lookupAllocationBlock(v, allocationBlockIndex) ==
  LET i == (allocationBlockIndex - 2) % 65536
  IN  IF i >= Len(v.allocationBlocks) THEN [panic |-> TRUE, next |-> 0]
      ELSE [panic |-> FALSE, next |-> v.allocationBlocks[i + 1]]

\* The capacity append gives data, as the Go runtime (gc, since Go 1.18)
\* computes it in runtime.growslice: no growth while the new length fits;
\* otherwise the new length when it exceeds twice the old capacity, twice the
\* old capacity below 256 elements, steps of (cap + 768) / 4 above; the result
\* is rounded up to a malloc size class (whole pages beyond 32768 bytes).
sizeClasses == {8, 16, 24, 32, 48, 64, 80, 96, 112, 128, 144, 160, 176, 192, 208, 224, 240, 256, 288, 320, 352, 384, 416, 448, 480, 512, 576, 640, 704, 768, 896, 1024, 1152, 1280, 1408, 1536, 1792, 2048, 2304, 2688, 3072, 3200, 3456, 4096, 4864, 5376, 6144, 6528, 6784, 6912, 8192, 9472, 9728, 10240, 10880, 12288, 13568, 14336, 16384, 18432, 19072, 20480, 21760, 24576, 27264, 28672, 32768}

roundupsize(n) ==
  IF n = 0 THEN 0
  ELSE IF n > 32768 THEN ((n + 8191) \div 8192) * 8192
  ELSE CHOOSE c \in sizeClasses : c >= n /\ \A d \in sizeClasses : d >= n => c <= d

RECURSIVE growByQuarters(_, _)
growByQuarters(newcap, newLen) == IF newcap >= newLen THEN newcap ELSE growByQuarters(newcap + ((newcap + 768) \div 4), newLen)

nextslicecap(newLen, oldCap) ==
  IF newLen > 2 * oldCap THEN newLen
  ELSE IF oldCap < 256 THEN 2 * oldCap
  ELSE growByQuarters(oldCap, newLen)

\* cap(append(data, block...)) for len(data) = oldLen, cap(data) = oldCap, len(block) = n
appendCap(oldCap, oldLen, n) == IF oldLen + n <= oldCap THEN oldCap ELSE roundupsize(nextslicecap(oldLen + n, oldCap))

\* bytes.NewReader(data[0:length]): the slice expression panics when length
\* exceeds cap(data), and reaches into the zeroed spare capacity otherwise
sliceToLength(data, length, capacity) ==
  IF length <= Len(data) THEN [status |-> "ok", data |-> SubSeq(data, 1, length)]
  ELSE IF length <= capacity THEN [status |-> "ok", data |-> data \o [j \in 1..(length - Len(data)) |-> 0]]
  ELSE [status |-> "panic", data |-> <<>>]

\* one pass of bytesReader over the block c.idx: the block was read (rb), it is
\* appended, the next block is looked up (lk), the loop condition
\* (allocationBlockIndex != 1) is tested and, when the chain ends, the data is
\* sliced and returned
advance(c, rb, lk, done) ==
  IF rb.err THEN [pc |-> "idle", pos |-> rb.pos, call |-> [done EXCEPT !.lookedUp = c.lookedUp], result |-> [status |-> "error", data |-> <<>>]]
  ELSE IF lk.panic THEN [pc |-> "idle", pos |-> rb.pos, call |-> done, result |-> [status |-> "panic", data |-> <<>>]]
  ELSE IF lk.next = 1 THEN [pc |-> "idle", pos |-> rb.pos, call |-> [done EXCEPT !.hops = c.hops + 1], result |-> sliceToLength(c.data \o rb.buffer, c.length, appendCap(c.cap, Len(c.data), Len(rb.buffer)))]
  ELSE [pc |-> "walk", pos |-> rb.pos, call |-> [done EXCEPT !.idx = lk.next, !.data = c.data \o rb.buffer, !.cap = appendCap(c.cap, Len(c.data), Len(rb.buffer)), !.hops = c.hops + 1], result |-> NoResult]

readAndAdvance(v, s, p, c) == advance(c, readAllocationBlock(v, s, p, c.idx), lookupAllocationBlock(v, c.idx), [c EXCEPT !.data = <<>>, !.cap = 0, !.io = c.io + 2, !.lookedUp = Append(c.lookedUp, c.idx)])

\* bytesReader(allocationBlockIndex, length) up to its first loop test, called
\* for fork kind of file fileIndex with the cursor at p
bytesReaderAlwaysReads(v, s, p, kind, fileIndex, allocationBlockIndex, length) == readAndAdvance(v, s, p, [NoCall EXCEPT !.kind = kind, !.file = fileIndex, !.length = length, !.idx = allocationBlockIndex, !.posBefore = p])

bytesReader(v, s, p, kind, fileIndex, allocationBlockIndex, length) ==
  LET c == [NoCall EXCEPT !.kind = kind, !.file = fileIndex, !.length = length, !.idx = allocationBlockIndex, !.posBefore = p]
  IN  IF length # 0 THEN readAndAdvance(v, s, p, c)
      ELSE [pc |-> "idle", pos |-> p, call |-> c, result |-> sliceToLength(<<>>, length, 0)]

\* volume.Files[fileIndex] panics (index out of range) outside the slice
openFork(v, s, p, kind, fileIndex) ==
  IF fileIndex < 0 \/ fileIndex >= Len(v.Files)
  THEN [pc |-> "idle", pos |-> p, call |-> [NoCall EXCEPT !.kind = kind, !.file = fileIndex, !.posBefore = p], result |-> [status |-> "panic", data |-> <<>>]]
  ELSE LET file == v.Files[fileIndex + 1]
       IN  IF kind = "data"
           THEN bytesReader(v, s, p, kind, fileIndex, file.directoryEntry.StBlk, file.directoryEntry.LgLen)
           ELSE bytesReader(v, s, p, kind, fileIndex, file.directoryEntry.RStBlk, file.directoryEntry.RLgLen)

\* the state after a step of a call with outcome o; a completed open of a fork
\* that was not opened before is remembered in first
Apply(o) ==
  LET fork == <<o.call.file, o.call.kind>>
  IN  /\ pc' = o.pc
      /\ pos' = o.pos
      /\ call' = o.call
      /\ result' = o.result
      /\ first' = IF o.pc = "idle" /\ fork \in DOMAIN first /\ first[fork] = NoResult THEN [first EXCEPT ![fork] = o.result] ELSE first
      /\ UNCHANGED <<source, newStatus, vol, vol0, readAt>>

\* ------------------------------------------------------------------------
\* Actions
\* ------------------------------------------------------------------------

NewVolumeReturns(r) ==
  /\ newStatus' = r.status
  /\ vol' = r.vol
  /\ vol0' = r.vol
  /\ pos' = r.pos
  /\ readAt' = r.readAt
  /\ pc' = IF r.status = "ok" THEN "idle" ELSE "failed"
  /\ first' = [fork \in (0..(Len(r.vol.Files) - 1)) \X ForkKinds |-> NoResult]
  /\ UNCHANGED <<source, call, result>>

NewVolume ==
  /\ pc = "start"
  /\ NewVolumeReturns(NewVolumeResult(source))

OpenDataFork(fileIndex) ==
  /\ pc = "idle"
  /\ Apply(openFork(vol, source, pos, "data", fileIndex))

OpenResourceFork(fileIndex) ==
  /\ pc = "idle"
  /\ Apply(openFork(vol, source, pos, "resource", fileIndex))

\* one more iteration of the for loop of bytesReader; the model follows the walk
\* for at most ExtraHops lookups beyond the length of the map
bytesReaderLoop ==
  /\ pc = "walk"
  /\ call.hops < vol.vi.NumberOfAllocationBlocks + ExtraHops
  /\ Apply(readAndAdvance(vol, source, pos, call))

\* ------------------------------------------------------------------------
\* The images the model is run on
\* ------------------------------------------------------------------------

\* 0xd2 0xd7
GoodSignature == <<210, 215>>

\* the packed form of a sequence of 12-bit entries: two entries in three bytes,
\* a last odd entry in two
RECURSIVE PackEntries(_)
PackEntries(e) ==
  IF Len(e) = 0 THEN <<>>
  ELSE IF Len(e) = 1 THEN <<e[1] \div 16, (e[1] % 16) * 16>>
  ELSE <<e[1] \div 16, (e[1] % 16) * 16 + e[2] \div 256, e[2] % 256>> \o PackEntries(SubSeq(e, 3, Len(e)))

PackedLength(count) == (3 * count + 1) \div 2

\* the on-disk starts of the records names[k..], the first of them wanted at
\* offset at: a record follows the previous one, unless it would span a logical
\* block boundary; then it starts at the next boundary
RECURSIVE OnDiskStarts(_, _, _)
OnDiskStarts(names, k, at) ==
  IF k > Len(names) THEN <<>>
  ELSE LET len == RecordLength(names[k])
           start == IF (at % logicalBlockSize) + len > logicalBlockSize THEN at + (logicalBlockSize - (at % logicalBlockSize)) ELSE at
       IN  <<start>> \o OnDiskStarts(names, k + 1, start + len)

DirectoryRecord(namLen, stBlk, lgLen, rStBlk, rLgLen) == [Flags |-> 0, NamLen |-> namLen, StBlk |-> stBlk, LgLen |-> lgLen, RStBlk |-> rStBlk, RLgLen |-> rLgLen, CrDat |-> macEpochOffset + 100, MdDat |-> macEpochOffset + 200]

\* the last allocation block of a fork image
LastBlock == NumBlocks + 1

\* an image with the given map entries and directory records, laid out by the
\* on-disk rules, the directory in blLen logical blocks from block 4 on; the
\* allocation blocks 0 .. LastBlock+3 can be read
Image(entries, dir, blLen) ==
  [sig |-> GoodSignature,
   NumberOfFiles |-> Len(dir),
   DirSt |-> 4,
   BlLen |-> blLen,
   NumberOfAllocationBlocks |-> Len(entries),
   SizeOfAllocationBlocks |-> BlockBytes,
   volNameLen |-> 5,
   packedFrom |-> entries,
   map |-> PackEntries(entries),
   dir |-> dir,
   dirStart |-> OnDiskStarts([k \in 1..Len(dir) |-> dir[k].NamLen], 1, 4 * logicalBlockSize),
   onDisk |-> TRUE,
   size |-> (4 + blLen) * logicalBlockSize + (LastBlock + 4) * BlockBytes,
   seed |-> 11]

\* fork images: two files; the chain of file 0's data fork starts at stBlk and
\* runs through the entries of blocks 2, 3 and LastBlock
ForkEntries(e2, e3, eLast) == [i \in 1..NumBlocks |-> IF i = 1 THEN e2 ELSE IF i = 2 THEN e3 ELSE IF i = NumBlocks THEN eLast ELSE 0]

ForkImages ==
  {Image(ForkEntries(e2, e3, eLast),
         <<DirectoryRecord(7, stBlk, lgLen, 3, BlockBytes), DirectoryRecord(4, LastBlock, 1, 0, 0)>>, 1) :
     e2 \in {0, 1, 2, 3, LastBlock, LastBlock + 1, LastBlock + 4},
     e3 \in {1, LastBlock},
     eLast \in {0, 1, 2, 3, LastBlock + 1},
     stBlk \in {0, 1, 2, LastBlock + 4},
     lgLen \in {0, BlockBytes + 1, 2 * BlockBytes + 1, 8 * BlockBytes + 1}}

\* directory images: MaxDirFiles records with the shortest or the longest name
DirectoryImages ==
  {Image(<<1>>, [k \in 1..MaxDirFiles |-> DirectoryRecord(names[k], 2, 1, 0, 0)], 2) : names \in [1..MaxDirFiles -> {0, 31}]}

\* 0x12 0x34 0x56 0xff
MapByteSamples == {18, 52, 86, 255}

\* 0x000 0x001 0x123 0x456 0xabc 0xfff
MapEntrySamples == {0, 1, 291, 1110, 2748, 4095}

\* map images: any packed bytes, or the packed form of any entries; also with
\* the source cut one byte short of the map's end
MapImages ==
  LET raw == UNION {{[Image(<<>>, <<>>, 1) EXCEPT !.NumberOfAllocationBlocks = count, !.map = bytes] : bytes \in [1..PackedLength(count) -> MapByteSamples]} : count \in 0..MaxMapEntries}
      packed == UNION {{Image(entries, <<>>, 1) : entries \in [1..count -> MapEntrySamples]} : count \in 0..MaxMapEntries}
      cut == {[s EXCEPT !.size = volumeInformationOffset + volumeInformationSize + Len(s.map) - 1] : s \in {x \in packed : Len(x.map) > 0}}
  IN  raw \cup packed \cup cut

\* signature images: the two signature bytes vary over a few bodies: an empty
\* volume, a volume with files, one whose volume name is too long for its
\* field, one cut short inside the volume information
SignatureImages ==
  LET bodies == {Image(<<>>, <<>>, 1),
                 Image(<<1, 1>>, <<DirectoryRecord(7, 2, 1, 3, 2), DirectoryRecord(4, 3, 1, 0, 0)>>, 1),
                 [Image(<<>>, <<>>, 1) EXCEPT !.volNameLen = maxVolumeNameLength + 1],
                 [Image(<<>>, <<>>, 1) EXCEPT !.size = volumeInformationOffset + 2]}
  IN  {[b EXCEPT !.sig = <<x, y>>] : b \in bodies, x \in {0, 210, 215}, y \in {0, 210, 215}}

VolumeImages == DirectoryImages \cup MapImages \cup SignatureImages

\* ------------------------------------------------------------------------
\* Specifications
\* ------------------------------------------------------------------------

InitOn(images) ==
  /\ source \in images
  /\ pos = 0
  /\ pc = "start"
  /\ newStatus = "none"
  /\ vol = NilVolume
  /\ vol0 = NilVolume
  /\ readAt = <<>>
  /\ call = NoCall
  /\ result = NoResult
  /\ first = [fork \in {} |-> NoResult]

\* opening forks of a volume
Init == InitOn(ForkImages)

Next ==
  \/ NewVolume
  \/ \E fileIndex \in -1..2 : OpenDataFork(fileIndex)
  \/ \E fileIndex \in -1..2 : OpenResourceFork(fileIndex)
  \/ bytesReaderLoop

Spec == Init /\ [][Next]_vars

\* constructing a volume
InitVolume == InitOn(VolumeImages)

NextVolume == NewVolume

SpecVolume == InitVolume /\ [][NextVolume]_vars

\* ------------------------------------------------------------------------
\* Terms of the claims
\* ------------------------------------------------------------------------

\* an Open...Fork call has returned (or panicked)
Completed == pc = "idle" /\ result.status # "none"

InRange(fileIndex) == fileIndex >= 0 /\ fileIndex < Len(vol.Files)

\* the declared logical length of the fork the last call opened
DeclaredLength == IF call.kind = "data" THEN vol.Files[call.file + 1].DataForkLength ELSE vol.Files[call.file + 1].ResourceForkLength

\* its start block
DeclaredStart == IF call.kind = "data" THEN vol.Files[call.file + 1].directoryEntry.StBlk ELSE vol.Files[call.file + 1].directoryEntry.RStBlk

ValidBlocks == 2..(vol.vi.NumberOfAllocationBlocks + 1)

\* the chain of allocation blocks from block b on, by the map: b, map[b-2], ...
\* up to the block whose entry is the terminal marker 1; a 0 stands in the
\* chain where it leaves the valid blocks or does not end within fuel blocks
RECURSIVE ChainFrom(_, _, _)
ChainFrom(map, b, fuel) ==
  IF fuel = 0 \/ b < 2 \/ b > Len(map) + 1 THEN <<0>>
  ELSE IF map[b - 1] = 1 THEN <<b>>
  ELSE <<b>> \o ChainFrom(map, map[b - 1], fuel - 1)

DeclaredChain == ChainFrom(vol.allocationBlocks, DeclaredStart, Len(vol.allocationBlocks))

WellFormed(chain) == \A k \in 1..Len(chain) : chain[k] # 0

\* the byte the format puts at position i (from 1) of a fork stored in chain
ForkByte(chain, i) == ByteAt(source, (vol.vi.DirSt + vol.vi.BlLen) * logicalBlockSize + chain[((i - 1) \div vol.vi.SizeOfAllocationBlocks) + 1] * vol.vi.SizeOfAllocationBlocks + ((i - 1) % vol.vi.SizeOfAllocationBlocks))

\* the walk of the last call reached a block whose map entry is the terminal marker
ChainEnded ==
  /\ call.lookedUp # <<>>
  /\ call.lookedUp[Len(call.lookedUp)] \in ValidBlocks
  /\ vol.allocationBlocks[call.lookedUp[Len(call.lookedUp)] - 1] = 1

\* entry i (from 0) of the map, read off the packed bytes: three bytes are a
\* 24-bit word that holds two 12-bit entries; a last lone entry is the upper
\* 12 bits of a 16-bit word
PackedEntry(bytes, count, i) ==
  IF i % 2 = 0 /\ i = count - 1
  THEN (bytes[3 * (i \div 2) + 1] * 256 + bytes[3 * (i \div 2) + 2]) \div 16
  ELSE IF i % 2 = 0
  THEN (bytes[3 * (i \div 2) + 1] * 65536 + bytes[3 * (i \div 2) + 2] * 256 + bytes[3 * (i \div 2) + 3]) \div 4096
  ELSE (bytes[3 * (i \div 2) + 1] * 65536 + bytes[3 * (i \div 2) + 2] * 256 + bytes[3 * (i \div 2) + 3]) % 4096

\* ------------------------------------------------------------------------
\* Claims
\* ------------------------------------------------------------------------

\* C1: every open of a fork of a file of the volume yields a stream of exactly
\* the declared logical length, for any allocation map contents, also when the
\* blocks of the chain total fewer bytes than that length. Stated here for the
\* opens whose chain walk reaches the terminal marker (or that need no walk).
C1_StreamHasDeclaredLength ==
  (Completed /\ InRange(call.file) /\ (DeclaredLength = 0 \/ ChainEnded))
    => (result.status = "ok" /\ Len(result.data) = DeclaredLength)

\* C2: the chain walk of bytesReader makes at most NumberOfAllocationBlocks
\* hops (map lookups), whatever the map holds.
C2_WalkBoundedByMapLength == call.hops <= vol.vi.NumberOfAllocationBlocks

\* C3: NewVolume returns an error and no Volume when the two bytes at offset
\* 1024 are not 0xd2 0xd7, whatever the rest of the source is, and returns a
\* Volume only when they are.
C3_SignatureRejected ==
  pc # "start" =>
    /\ source.sig # GoodSignature => (newStatus = "error" /\ vol = NilVolume)
    /\ newStatus = "ok" => (source.sig = GoodSignature /\ vol # NilVolume)

C3_Witness ==
  /\ pc # "start"
  /\ source.sig = <<215, 210>>
  /\ source.NumberOfFiles = 2
  /\ source.size > volumeInformationOffset + volumeInformationSize
  /\ newStatus = "error"
  /\ vol = NilVolume

\* C4: for a well-formed chain that holds the declared length, the stream of a
\* fork with logicalLength > 0 is the concatenation, in chain order, of the
\* allocation blocks startBlock, map[startBlock-2], ... up to the block whose
\* entry is 1, each read at (DirSt + BlLen) * 512 + block * SizeOfAllocationBlocks,
\* cut to logicalLength bytes; exactly the blocks of the chain are read.
C4_StreamIsChainOfBlocks ==
  (Completed /\ InRange(call.file) /\ DeclaredLength > 0 /\ WellFormed(DeclaredChain)
     /\ DeclaredLength <= Len(DeclaredChain) * vol.vi.SizeOfAllocationBlocks)
    => /\ result.status = "ok"
       /\ result.data = [i \in 1..DeclaredLength |-> ForkByte(DeclaredChain, i)]
       /\ call.lookedUp = DeclaredChain

C4_Witness ==
  /\ Completed
  /\ InRange(call.file)
  /\ DeclaredChain = <<2, LastBlock>>
  /\ DeclaredLength = BlockBytes + 1
  /\ result.status = "ok"
  /\ Len(result.data) = BlockBytes + 1

\* C5: opening a fork whose logical length is 0 returns an empty stream and
\* issues no seek and no read: the cursor stays where it was, whatever the
\* fork's start block and the map are.
C5_ZeroLengthNoIO ==
  (Completed /\ InRange(call.file) /\ DeclaredLength = 0)
    => (result = [status |-> "ok", data |-> <<>>] /\ call.io = 0 /\ pos = call.posBefore)

C5_Witness ==
  /\ Completed
  /\ InRange(call.file)
  /\ DeclaredLength = 0
  /\ DeclaredStart \notin ValidBlocks
  /\ result.status = "ok"
  /\ pos = call.posBefore
  /\ pos > vol.vi.DirSt * logicalBlockSize + fileDirectoryEntrySize

\* C6: OpenDataFork / OpenResourceFork with an index outside [0, fileCount)
\* return an error value.
C6_IndexErrorReturned == (Completed /\ ~InRange(call.file)) => result.status = "error"

\* C7: opens leave the Volume as NewVolume built it, and what an open of a fork
\* returns is what the first open of that fork returned, whatever opens, failed
\* or not, came in between.
C7_OpensLeaveVolumeAndResults ==
  /\ pc \in {"idle", "walk"} => vol = vol0
  /\ (Completed /\ <<call.file, call.kind>> \in DOMAIN first) => result = first[<<call.file, call.kind>>]

C7_Witness ==
  /\ Completed
  /\ call.file = 1
  /\ call.kind = "data"
  /\ result.status = "ok"
  /\ first[<<1, "data">>] = result
  /\ first[<<0, "data">>].status = "error"
  /\ first[<<0, "resource">>].status = "ok"
  /\ pos # call.posBefore
  /\ vol = vol0

\* C8: for a directory laid out by the on-disk rules, NewVolume reads every
\* record from the offset the record starts at.
C8_CursorAtRecordStart ==
  (pc # "start" /\ source.onDisk)
    => \A k \in 1..Len(readAt) : k <= Len(source.dirStart) /\ readAt[k] = source.dirStart[k]

\* C9: the decoded map has exactly NumberOfAllocationBlocks entries, each in
\* 0..4095, entry i being the i-th 12-bit field of the packed bytes; decoding
\* the packed form of a sequence of 12-bit values gives the sequence back.
C9_MapDecoded ==
  newStatus = "ok" =>
    /\ Len(vol.allocationBlocks) = source.NumberOfAllocationBlocks
    /\ \A i \in 1..Len(vol.allocationBlocks) :
         /\ vol.allocationBlocks[i] \in 0..4095
         /\ vol.allocationBlocks[i] = PackedEntry(source.map, source.NumberOfAllocationBlocks, i - 1)
    /\ source.map = PackEntries(source.packedFrom) => vol.allocationBlocks = source.packedFrom

C9_Witness ==
  /\ newStatus = "ok"
  /\ source.map = <<18, 52, 86>>
  /\ source.NumberOfAllocationBlocks = 2
  /\ vol.allocationBlocks = <<291, 1110>>

\* C10: an open with logicalLength > 0 that looks up the map for a block index
\* outside [2, NumberOfAllocationBlocks + 1] returns an error value.
C10_OutOfRangeIsError ==
  (Completed /\ call.lookedUp # <<>> /\ call.lookedUp[Len(call.lookedUp)] \notin ValidBlocks)
    => result.status = "error"

====
